---- MODULE Spec2Model ----
(***************************************************************************)
(* Model of the tournament-bracket page (src/app/page.tsx): the bracket    *)
(* builder generateBracketData, the progression handler handleWinnerSelect *)
(* and the page state they act on.                                         *)
(*                                                                         *)
(* Round and match indices are the 0-based indices of the source; the      *)
(* sequences holding them are 1-based, so rounds[r + 1][i + 1] is the      *)
(* source's rounds[r][i].                                                  *)
(***************************************************************************)
EXTENDS Integers, Sequences, FiniteSets, TLC

\* Largest competitor list the model generates a bracket from.
MaxN == 5

\* The outcomes of the shuffle the model draws from are the rotations of the
\* list by 0..MaxShift places.
MaxShift == 1

\* Largest competitor list of the specification with the in-bracket inputs.
MaxEditN == 3

\* The texts typed into a name or subtitle input are 0..MaxText, 0 being the
\* text a competitor of the list starts with.
MaxText == 1

\* Largest competitor list of the specification with the share modal.
MaxShareN == 2

\* Largest number of calls of generatePreview that have not returned.
MaxPreviews == 1

\* const MAX_COMPETITORS = 1024 (line 506)
MAX_COMPETITORS == 1024

\* The specification of the list handlers starts from lists of 0..MaxListN
\* competitors, from a list one entry below the cap and from a list at the
\* cap, takes at most MaxListOps steps and has at most MaxReaders FileReaders
\* that have not loaded.
MaxListN == 2
MaxListOps == 4
MaxReaders == 1

\* The page with its list handlers takes at most MaxPageOps steps of the list
\* handlers.
MaxPageOps == 3

\* Holders of the store's arrays: the longest competitor list
MaxRefN == 2

\* The page with the add form: the longest initial competitor list
MaxAddN == 2

\* The share view: the last match of round 0 that is clicked
MaxViewI == 1

VARIABLES
    competitors,   \* App state: the competitor list (line 497)
    bracketData,   \* App state: the bracket store or null (line 496)
    mode,          \* App state: the mode toggle (line 500)
    isGenerating,  \* App state: the "Generated!" flag of the button (line 501)
    storeMode,     \* history: the mode the current store was generated in
    last,          \* history: the last operation, its arguments and the store before it
    isShareModalOpen,  \* BracketPage state: the share modal is shown (line 413)
    previewUrl,        \* ShareModal state: the preview image (line 216)
    shareGenerating,   \* ShareModal state: its isGenerating flag (line 213)
    options,           \* ShareModal state: the share options (line 215)
    timer,             \* the 200 ms timer of line 246 is pending
    previews,          \* the calls of generatePreview that have not returned
    previewFrom,       \* history: the options and the store the preview was rendered from
    newCompetitorName,      \* App state: the text of the name box (line 498)
    newCompetitorSubtitle,  \* App state: the text of the subtitle box (line 499)
    now,                    \* the reading of Date.now()
    readers,                \* the FileReaders of handleImageUpload that have not loaded
    listOps,                \* history: the number of steps of the list handlers so far
    lastList,               \* history: the last list handler, the length of the list
                            \* and the name box before it, and whether it kept the list
    held                    \* the rounds and winners arrays a render of BracketPage was
                            \* given (line 667), as that render reads them now

\* the state of the page, and the state of the share modal of the bracket
pageVars == <<competitors, bracketData, mode, isGenerating, storeMode, last>>
shareVars ==
    <<isShareModalOpen, previewUrl, shareGenerating, options, timer, previews, previewFrom>>

listVars == <<newCompetitorName, newCompetitorSubtitle, now, readers, listOps, lastList>>

refVars == <<held>>

vars == <<pageVars, shareVars, listVars, refVars>>

----------------------------------------------------------------------------
(* Data shapes *)

\* type Competitor; name and subtitle are version counters of the text,
\* images of the image.
Competitor(i) == [id |-> i, name |-> 0, subtitle |-> 0, images |-> 0]

\* null in a slot; its id equals no competitor's id, as `null?.id` is undefined.
Null == [id |-> 0, name |-> 0, subtitle |-> 0, images |-> 0]

\* type Match
Match(x, y) == [a |-> x, b |-> y]

\* the value null of bracketData
NullData == [null |-> TRUE, rounds |-> <<>>, winners |-> <<>>]

\* a non-null { rounds, winners }
Data(rs, ws) == [null |-> FALSE, rounds |-> rs, winners |-> ws]

\* rounds[r][i][key]
Slot(rs, r, i, key) == IF key = "a" THEN rs[r + 1][i + 1].a ELSE rs[r + 1][i + 1].b

\* rounds[r][i][key] = c
SetSlot(rs, r, i, key, c) ==
    [rs EXCEPT ![r + 1][i + 1] = IF key = "a" THEN [@ EXCEPT !.a = c] ELSE [@ EXCEPT !.b = c]]

\* Math.floor(i / 2)
nextMatchIndexOf(i) == i \div 2

\* i % 2 === 0 ? 'a' : 'b'
nextSlotOf(i) == IF i % 2 = 0 THEN "a" ELSE "b"

\* round.findIndex(m => m.a?.id === id || m.b?.id === id), -1 when there is none
findIndex(round, id) ==
    LET hits == {i \in 1..Len(round) : round[i].a.id = id \/ round[i].b.id = id}
    IN  IF hits = {} THEN -1
        ELSE (CHOOSE i \in hits : \A j \in hits : i <= j) - 1

\* ws.some(w => w.id === id)
someId(ws, id) == \E k \in 1..Len(ws) : ws[k].id = id

\* ws.filter(w => w.id !== id)
filterOut(ws, id) == SelectSeq(ws, LAMBDA w : w.id # id)

----------------------------------------------------------------------------
(* handleWinnerSelect, lines 562-598 *)

\* clearFutureProgression (lines 567-577): empties the slot that match
\* (currentRound, currentMatchIdx) feeds, drops its occupant from the winners
\* of that round, and recurses from the cleared slot's match.
RECURSIVE clearFutureProgression(_, _, _)
clearFutureProgression(d, currentRound, currentMatchIdx) ==
    IF currentRound + 1 >= Len(d.rounds) THEN d
    ELSE LET nextMatchIndex == nextMatchIndexOf(currentMatchIdx)
             nextSlot == nextSlotOf(currentMatchIdx)
             progressedCompetitor ==
                 IF nextMatchIndex < Len(d.rounds[currentRound + 2])
                 THEN Slot(d.rounds, currentRound + 1, nextMatchIndex, nextSlot)
                 ELSE Null
         IN  IF progressedCompetitor # Null
             THEN clearFutureProgression(
                      Data(SetSlot(d.rounds, currentRound + 1, nextMatchIndex, nextSlot, Null),
                           [d.winners EXCEPT ![currentRound + 2] =
                                filterOut(@, progressedCompetitor.id)]),
                      currentRound + 1, nextMatchIndex)
             ELSE d

\* lines 583-589: every winner of round r, in order, is written into the slot
\* of round r + 1 that its match feeds; k is the position in the forEach.
RECURSIVE forwardWrite(_, _, _, _)
forwardWrite(rs, ws, r, k) ==
    IF k > Len(ws) THEN rs
    ELSE LET w == ws[k]
             mi == findIndex(rs[r + 1], w.id)
             nmi == nextMatchIndexOf(mi)
             ns == nextSlotOf(mi)
         IN  forwardWrite(IF mi # -1 /\ nmi < Len(rs[r + 2])
                          THEN SetSlot(rs, r + 1, nmi, ns, w)
                          ELSE rs,
                          ws, r, k + 1)

\* lines 590-595: a match of the next round with exactly one occupant that is
\* not yet among that round's winners gets it pushed; i is the position in
\* the forEach.
RECURSIVE autoAdvance(_, _, _)
autoAdvance(nextRound, nextWinnersInRound, i) ==
    IF i > Len(nextRound) THEN nextWinnersInRound
    ELSE LET m == nextRound[i]
             w1 == IF m.a # Null /\ m.b = Null /\ ~someId(nextWinnersInRound, m.a.id)
                   THEN Append(nextWinnersInRound, m.a) ELSE nextWinnersInRound
             w2 == IF m.a = Null /\ m.b # Null /\ ~someId(w1, m.b.id)
                   THEN Append(w1, m.b) ELSE w1
         IN  autoAdvance(nextRound, w2, i + 1)

\* the loop of lines 581-596, from round r to the second-to-last round
RECURSIVE propagate(_, _)
propagate(d, r) ==
    IF r >= Len(d.rounds) - 1 THEN d
    ELSE LET rs == forwardWrite(d.rounds, d.winners[r + 1], r, 1)
             ws == [d.winners EXCEPT ![r + 2] = autoAdvance(rs[r + 2], @, 1)]
         IN  propagate(Data(rs, ws), r + 1)

\* lines 579-580: the winners of the round lose both occupants of the match
\* and gain the selected one.
recordWinner(d, roundIndex, matchIndex, winner) ==
    LET match == d.rounds[roundIndex + 1][matchIndex + 1]
    IN  Data(d.rounds,
             [d.winners EXCEPT ![roundIndex + 1] =
                  Append(SelectSeq(@, LAMBDA w : w.id # match.a.id /\ w.id # match.b.id),
                         winner)])

\* selectWinner that also moves the selected competitor to slot a of its match
selectWinnerMovingToA(d, roundIndex, matchIndex, winner) ==
    LET done == propagate(recordWinner(clearFutureProgression(d, roundIndex, matchIndex),
                                       roundIndex, matchIndex, winner),
                          roundIndex)
        match == d.rounds[roundIndex + 1][matchIndex + 1]
        other == IF match.a.id = winner.id THEN match.b ELSE match.a
    IN  Data([done.rounds EXCEPT ![roundIndex + 1][matchIndex + 1] = Match(winner, other)],
             done.winners)

\* lines 564-597: the store handleWinnerSelect passes to setBracketData
selectWinner(d, roundIndex, matchIndex, winner) ==
    propagate(recordWinner(clearFutureProgression(d, roundIndex, matchIndex),
                           roundIndex, matchIndex, winner),
              roundIndex)

----------------------------------------------------------------------------
(* generateBracketData, lines 433-492 *)

\* [...competitors].sort(() => Math.random() - 0.5) (line 435): the list in
\* the order the permutation perm gives.
shuffle(cs, perm) == [i \in 1..Len(cs) |-> cs[perm[i]]]

\* The permutations the comparator sort of line 435 is taken to produce: the
\* rotation by s places maps position i to position ((i - 1 + s) mod n) + 1.
shuffleOutcomes(n) ==
    {[i \in 1..n |-> ((i - 1 + s) % n) + 1] : s \in 0..MaxShift}

\* Math.random() > 0.5 ? a : b, the boolean being the outcome of the comparison
pick(coin, x, y) == IF coin THEN x ELSE y

\* round1MatchesOf without line 442: the popped player gets no match
round1MatchesWithoutBye(shuffled) ==
    [j \in 1..(Len(shuffled) \div 2) |-> Match(shuffled[2 * j - 1], shuffled[2 * j])]

\* lines 436-442: consecutive pairs of the shuffled list, then the bye match
\* of the popped last player when the count is odd
round1MatchesOf(shuffled) ==
    LET n == Len(shuffled)
        paired == n \div 2
    IN  [j \in 1..(paired + (n % 2)) |->
            IF j <= paired THEN Match(shuffled[2 * j - 1], shuffled[2 * j])
            ELSE Match(shuffled[n], Null)]

\* round1WinnersOf without the bye rule of line 445: only drawn winners
round1WinnersContestedOnly(round1Matches, isManual, coins) ==
    LET decided == [j \in 1..Len(round1Matches) |->
                       LET match == round1Matches[j]
                       IN  IF ~isManual /\ match.a # Null /\ match.b # Null
                           THEN pick(coins[j], match.a, match.b)
                           ELSE Null]
    IN  SelectSeq(decided, LAMBDA c : c # Null)

\* round1WinnersOf that decides a contested match in manual mode as well, for
\* the competitor of slot a
round1WinnersDecidingManual(round1Matches, isManual, coins) ==
    LET decided == [j \in 1..Len(round1Matches) |->
                       LET match == round1Matches[j]
                       IN  IF match.b = Null THEN match.a
                           ELSE IF isManual THEN match.a
                           ELSE pick(coins[j], match.a, match.b)]
    IN  SelectSeq(decided, LAMBDA c : c # Null)

\* lines 444-448: the winner of every round-0 match, null where there is none
\* yet; the j-th match draws coins[j]
round1WinnersOf(round1Matches, isManual, coins) ==
    LET decided == [j \in 1..Len(round1Matches) |->
                       LET match == round1Matches[j]
                       IN  IF match.a # Null /\ match.b = Null THEN match.a
                           ELSE IF ~isManual /\ match.a # Null /\ match.b # Null
                                THEN pick(coins[j], match.a, match.b)
                                ELSE Null]
    IN  SelectSeq(decided, LAMBDA c : c # Null)

\* randomRounds without line 458: a match with an empty slot b gets no winner
RECURSIVE randomRoundsNoBye(_, _, _, _)
randomRoundsNoBye(d, currentPlayers, coins, used) ==
    IF Len(currentPlayers) <= 1 THEN d
    ELSE LET n == Len(currentPlayers)
             nextRoundMatches ==
                 [j \in 1..((n + 1) \div 2) |->
                     Match(currentPlayers[2 * j - 1],
                           IF 2 * j <= n THEN currentPlayers[2 * j] ELSE Null)]
             nextRoundWinners ==
                 [j \in 1..(n \div 2) |->
                     LET match == nextRoundMatches[j]
                     IN  pick(coins[used + j], match.a, match.b)]
         IN  randomRoundsNoBye(Data(Append(d.rounds, nextRoundMatches),
                                    Append(d.winners, nextRoundWinners)),
                               nextRoundWinners, coins, used + (n \div 2))

\* randomRounds with the two players of a contested match in exchanged slots
RECURSIVE randomRoundsExchanged(_, _, _, _)
randomRoundsExchanged(d, currentPlayers, coins, used) ==
    IF Len(currentPlayers) <= 1 THEN d
    ELSE LET n == Len(currentPlayers)
             nextRoundMatches ==
                 [j \in 1..((n + 1) \div 2) |->
                     IF 2 * j <= n
                     THEN Match(currentPlayers[2 * j], currentPlayers[2 * j - 1])
                     ELSE Match(currentPlayers[2 * j - 1], Null)]
             nextRoundWinners ==
                 [j \in 1..Len(nextRoundMatches) |->
                     LET match == nextRoundMatches[j]
                     IN  IF match.b = Null THEN match.a
                         ELSE pick(coins[used + j], match.a, match.b)]
         IN  randomRoundsExchanged(Data(Append(d.rounds, nextRoundMatches),
                                        Append(d.winners, nextRoundWinners)),
                                   nextRoundWinners, coins, used + (n \div 2))

\* lines 452-463: random mode pairs the previous round's winners and draws
\* every contested match, until one winner is left; used is the number of
\* coins drawn so far
RECURSIVE randomRounds(_, _, _, _)
randomRounds(d, currentPlayers, coins, used) ==
    IF Len(currentPlayers) <= 1 THEN d
    ELSE LET n == Len(currentPlayers)
             nextRoundMatches ==
                 [j \in 1..((n + 1) \div 2) |->
                     Match(currentPlayers[2 * j - 1],
                           IF 2 * j <= n THEN currentPlayers[2 * j] ELSE Null)]
             nextRoundWinners ==
                 [j \in 1..Len(nextRoundMatches) |->
                     LET match == nextRoundMatches[j]
                     IN  IF match.b = Null THEN match.a
                         ELSE pick(coins[used + j], match.a, match.b)]
         IN  randomRounds(Data(Append(d.rounds, nextRoundMatches),
                               Append(d.winners, nextRoundWinners)),
                          nextRoundWinners, coins, used + (n \div 2))

\* placeholderRounds with the match count halved rounding down
RECURSIVE placeholderRoundsFloor(_, _)
placeholderRoundsFloor(d, lastRoundMatchCount) ==
    IF lastRoundMatchCount <= 1 THEN d
    ELSE LET nextRoundSize == lastRoundMatchCount \div 2
         IN  placeholderRoundsFloor(
                 Data(Append(d.rounds, [j \in 1..nextRoundSize |-> Match(Null, Null)]),
                      Append(d.winners, <<>>)),
                 nextRoundSize)

\* lines 465-471: manual mode appends rounds of empty matches, halving the
\* match count (rounded up) until it is 1
RECURSIVE placeholderRounds(_, _)
placeholderRounds(d, lastRoundMatchCount) ==
    IF lastRoundMatchCount <= 1 THEN d
    ELSE LET nextRoundSize == (lastRoundMatchCount + 1) \div 2
         IN  placeholderRounds(
                 Data(Append(d.rounds, [j \in 1..nextRoundSize |-> Match(Null, Null)]),
                      Append(d.winners, <<>>)),
                 nextRoundSize)

\* lines 473-481: the winners of round r written into the slots they feed
RECURSIVE manualForwardWrite(_, _, _, _)
manualForwardWrite(rs, ws, r, k) ==
    IF k > Len(ws) THEN rs
    ELSE LET winner == ws[k]
             originalMatchIndex == findIndex(rs[r + 1], winner.id)
             nextMatchIndex == nextMatchIndexOf(originalMatchIndex)
             nextSlot == nextSlotOf(originalMatchIndex)
         IN  manualForwardWrite(
                 IF originalMatchIndex # -1 /\ nextMatchIndex < Len(rs[r + 2])
                 THEN SetSlot(rs, r + 1, nextMatchIndex, nextSlot, winner)
                 ELSE rs,
                 ws, r, k + 1)

\* lines 482-488: lone occupants of the next round pushed to its winners
RECURSIVE manualAutoAdvance(_, _, _)
manualAutoAdvance(nextRound, ws, i) ==
    IF i > Len(nextRound) THEN ws
    ELSE LET match == nextRound[i]
             w1 == IF match.a # Null /\ match.b = Null /\ ~someId(ws, match.a.id)
                   THEN Append(ws, match.a) ELSE ws
             w2 == IF match.a = Null /\ match.b # Null /\ ~someId(w1, match.b.id)
                   THEN Append(w1, match.b) ELSE w1
         IN  manualAutoAdvance(nextRound, w2, i + 1)

\* the loop of lines 472-489 from round r on
RECURSIVE manualPropagate(_, _)
manualPropagate(d, r) ==
    IF r >= Len(d.rounds) - 1 THEN d
    ELSE LET rs == manualForwardWrite(d.rounds, d.winners[r + 1], r, 1)
             ws == [d.winners EXCEPT ![r + 2] = manualAutoAdvance(rs[r + 2], @, 1)]
         IN  manualPropagate(Data(rs, ws), r + 1)

\* generateBracketData without the early return of line 434
generateBracketDataUnguarded(cs, isManual, perm, coins) ==
    LET round1Matches == round1MatchesOf(shuffle(cs, perm))
        round1Winners == round1WinnersOf(round1Matches, isManual, coins)
        first == Data(<<round1Matches>>, <<round1Winners>>)
    IN  IF ~isManual
        THEN randomRounds(first, round1Winners, coins, Len(cs) \div 2)
        ELSE manualPropagate(placeholderRounds(first, Len(round1Matches)), 0)

\* generateBracketData(competitors, isManual), with the outcome of the
\* shuffle (perm) and of the draws (coins) as inputs
generateBracketData(cs, isManual, perm, coins) ==
    IF Len(cs) < 2 THEN Data(<<>>, <<>>)
    ELSE LET round1Matches == round1MatchesOf(shuffle(cs, perm))
             round1Winners == round1WinnersOf(round1Matches, isManual, coins)
             first == Data(<<round1Matches>>, <<round1Winners>>)
         IN  IF ~isManual
             THEN randomRounds(first, round1Winners, coins, Len(cs) \div 2)
             ELSE manualPropagate(placeholderRounds(first, Len(round1Matches)), 0)

\* line 414: winners[winners.length - 1]?.[0] || null
champion(winners) ==
    IF Len(winners) > 0 /\ Len(winners[Len(winners)]) > 0
    THEN winners[Len(winners)][1] ELSE Null

----------------------------------------------------------------------------
(* The page: App, lines 495-598, and the click of line 379 *)

\* the value of `last` after an operation that is not recorded: last holds
\* the last operation on the store (generate, select or edit), its arguments,
\* the store before it and, for a select or a generate, the competitor list
\* before it
NoOp ==
    [op |-> "none", r |-> 0, i |-> 0, w |-> 0, pre |-> NullData, applied |-> FALSE,
     key |-> "a", field |-> "name", value |-> 0, list |-> <<>>]

\* line 215: the share options a ShareModal starts with; the Champion toggle
\* stands for the four toggles of lines 290-293, which run the same code
DefaultOptions == [showChampion |-> TRUE]

\* the value of previewFrom while there is no preview
NoPreview == [options |-> DefaultOptions, data |-> NullData]

\* line 666: the bracket is rendered when there is a store with at least one
\* round; otherwise the 'Add at least two competitors' text of line 669 is
displayable(d) == ~d.null /\ Len(d.rounds) > 0

\* lines 219-248: the effect of ShareModal, run after a render in which one of
\* its dependencies changed: the cleanup of the run before clears the pending
\* timer (line 247); with the modal closed the preview is emptied (lines
\* 220-222), with the modal open a new timer is set (line 246)
shareEffect(showModal) ==
    /\ timer' = showModal
    /\ previewUrl' = IF showModal THEN previewUrl ELSE ""
    /\ previewFrom' = IF showModal THEN previewFrom ELSE NoPreview

\* What setBracketData(d) does to the ShareModal of BracketPage (lines 416-418,
\* 666-667): while the bracket stays rendered, rounds and winners are new
\* arrays, so the effect runs again; when the bracket is mounted or unmounted,
\* the modal has the state of a new one and the calls of generatePreview of
\* the unmounted one no longer reach it
setBracketDataRenders(d) ==
    IF displayable(bracketData) /\ displayable(d)
    THEN /\ shareEffect(isShareModalOpen)
         /\ UNCHANGED <<isShareModalOpen, shareGenerating, options, previews>>
    ELSE /\ isShareModalOpen' = FALSE
         /\ previewUrl' = ""
         /\ shareGenerating' = FALSE
         /\ options' = DefaultOptions
         /\ timer' = FALSE
         /\ previews' = <<>>
         /\ previewFrom' = NoPreview

\* The text of an input box: the code of its letters, 0 for none, and whether
\* there is white space around them
Text(letters, padded) == [letters |-> letters, padded |-> padded]

\* the empty string
EmptyText == Text(0, FALSE)

\* String.prototype.trim
trim(t) == Text(t.letters, FALSE)

\* the value of lastList when no list handler has run
NoListOp == [op |-> "none", len |-> 0, box |-> EmptyText, kept |-> TRUE, changed |-> {}]

\* No render holds arrays of the store.  Otherwise `value` is what the holder
\* reads through its references now, `at` what the arrays held when the
\* references were taken, and `shared` names the held arrays that the store
\* of the page still refers to.
NoHeld == [taken |-> FALSE, value |-> NullData, at |-> NullData, shared |-> {}]

\* JSON.parse(JSON.stringify(x)) of lines 542-543 and 564-565, where source
\* names the array x: the result is an array built by the parser, which
\* shares no object with x
jsonRoundTripShared(source) == source

jsonRoundTrip(source) == "new " \o source

\* The arrays of the holder once a handler has written to newRounds and
\* newWinners and stored them (setBracketData of lines 559 and 597): d is the
\* store the handler has built.  A held array is written to only if it is the
\* array the handler wrote to.
heldAfterWrite(newRounds, newWinners, d) ==
    LET hit == held.shared \cap {newRounds, newWinners}
    IN  [held EXCEPT !.value = Data(IF "rounds" \in hit THEN d.rounds ELSE @.rounds,
                                    IF "winners" \in hit THEN d.winners ELSE @.winners),
                     !.shared = hit]

\* The handlers of lines 540-598 write to the round trips of the two arrays
heldAfterHandler(d) ==
    IF held.taken
    THEN heldAfterWrite(jsonRoundTrip("rounds"), jsonRoundTrip("winners"), d)
    ELSE held

\* setBracketData(generateBracketData(...)) of lines 512 and 518: the store
\* refers to the arrays generateBracketData has built (lines 446-491)
heldAfterGenerate == [held EXCEPT !.shared = {}]

\* A competitor list of n entries with distinct identifiers, no store
\* yet, the toggle on 'manual' (lines 496-501).  The mount effect of lines
\* 508-515 loads 13 competitors and stores generateBracketData(list, true);
\* here the list length is n and that store is the one handleGenerateBracket
\* yields from this state.  The identifiers of the list are 1..n; Date.now()
\* reads more than any of them.
InitOf(n) ==
    /\ competitors = [k \in 1..n |-> Competitor(k)]
    /\ bracketData = NullData
    /\ mode = "manual"
    /\ isGenerating = FALSE
    /\ storeMode = "none"
    /\ last = NoOp
    /\ isShareModalOpen = FALSE
    /\ previewUrl = ""
    /\ shareGenerating = FALSE
    /\ options = DefaultOptions
    /\ timer = FALSE
    /\ previews = <<>>
    /\ previewFrom = NoPreview
    /\ newCompetitorName = EmptyText
    /\ newCompetitorSubtitle = EmptyText
    /\ now = n + 1
    /\ readers = <<>>
    /\ listOps = 0
    /\ lastList = NoListOp
    /\ held = NoHeld

Init == \E n \in 0..MaxN : InitOf(n)

\* the Random and Manual buttons, lines 615-616
SetMode(m) ==
    /\ mode # m
    /\ mode' = m
    /\ last' = NoOp
    /\ UNCHANGED <<competitors, bracketData, isGenerating, storeMode>>
    /\ UNCHANGED <<shareVars, listVars, refVars>>

\* handleGenerateBracket, lines 517-521; the button is disabled while
\* isGenerating (line 645)
handleGenerateBracket ==
    /\ ~isGenerating
    /\ isGenerating' = TRUE
    /\ IF Len(competitors) > 1
       THEN /\ \E perm \in shuffleOutcomes(Len(competitors)) :
               \E coins \in [1..(IF mode = "manual" THEN 0 ELSE Len(competitors) - 1) -> BOOLEAN] :
                  bracketData' = generateBracketData(competitors, mode = "manual", perm, coins)
            /\ storeMode' = mode
       ELSE /\ bracketData' = NullData
            /\ storeMode' = "none"
    /\ setBracketDataRenders(bracketData')
    /\ last' = [NoOp EXCEPT !.op = "generate", !.list = competitors]
    /\ held' = heldAfterGenerate
    /\ UNCHANGED <<competitors, mode, listVars>>

\* the timer of line 520
GenerateTimeout ==
    /\ isGenerating
    /\ isGenerating' = FALSE
    /\ last' = NoOp
    /\ UNCHANGED <<competitors, bracketData, mode, storeMode>>
    /\ UNCHANGED <<shareVars, listVars, refVars>>

\* clickEmits that asks for an occupant of the clicked slot only
clickEmitsForAnyOccupant(d, r, i, key) ==
    /\ ~d.null /\ Len(d.rounds) > 0
    /\ r \in 0..(Len(d.rounds) - 1)
    /\ i \in 0..(Len(d.rounds[r + 1]) - 1)
    /\ Slot(d.rounds, r, i, key) # Null

\* line 379: a click on the competitor in slot key of match (r, i) calls
\* onWinnerSelect only when the slot and both slots of the match are occupied
clickEmits(d, r, i, key) ==
    /\ ~d.null /\ Len(d.rounds) > 0
    /\ r \in 0..(Len(d.rounds) - 1)
    /\ i \in 0..(Len(d.rounds[r + 1]) - 1)
    /\ Slot(d.rounds, r, i, key) # Null
    /\ d.rounds[r + 1][i + 1].a # Null
    /\ d.rounds[r + 1][i + 1].b # Null

\* lines 562-563: handleWinnerSelect returns early without a store or with
\* the toggle on 'random'
selectApplies(d, m) == ~(d.null \/ m = "random")

\* handleWinnerSelect that also takes the other occupant of the match off the
\* competitor list
handleWinnerSelectDroppingLoser(r, i, key) ==
    /\ clickEmits(bracketData, r, i, key)
    /\ LET winner == Slot(bracketData.rounds, r, i, key)
           loser == Slot(bracketData.rounds, r, i, IF key = "a" THEN "b" ELSE "a")
           applies == selectApplies(bracketData, mode)
       IN  /\ bracketData' = IF applies THEN selectWinner(bracketData, r, i, winner)
                             ELSE bracketData
           /\ competitors' = IF applies THEN filterOut(competitors, loser.id)
                             ELSE competitors
           /\ last' = [NoOp EXCEPT !.op = "select", !.r = r, !.i = i, !.w = winner.id,
                                   !.pre = bracketData, !.applied = applies, !.key = key,
                                   !.list = competitors]
           /\ IF applies THEN setBracketDataRenders(bracketData')
                         ELSE UNCHANGED shareVars
           /\ held' = IF applies THEN heldAfterHandler(bracketData') ELSE held
    /\ UNCHANGED <<mode, isGenerating, storeMode, listVars>>

\* handleWinnerSelect(r, i, winner) as called by the click of line 379
handleWinnerSelect(r, i, key) ==
    /\ clickEmits(bracketData, r, i, key)
    /\ LET winner == Slot(bracketData.rounds, r, i, key)
           applies == selectApplies(bracketData, mode)
       IN  /\ bracketData' = IF applies THEN selectWinner(bracketData, r, i, winner)
                             ELSE bracketData
           /\ last' = [NoOp EXCEPT !.op = "select", !.r = r, !.i = i, !.w = winner.id,
                                   !.pre = bracketData, !.applied = applies, !.key = key,
                                   !.list = competitors]
           /\ IF applies THEN setBracketDataRenders(bracketData')
                         ELSE UNCHANGED shareVars
           /\ held' = IF applies THEN heldAfterHandler(bracketData') ELSE held
    /\ UNCHANGED <<competitors, mode, isGenerating, storeMode, listVars>>

\* lines 382-385: the name and subtitle inputs of slot key of match (r, i)
\* exist only in a rendered bracket and only when the slot holds a competitor
editEmits(d, r, i, key) ==
    /\ displayable(d)
    /\ r \in 0..(Len(d.rounds) - 1)
    /\ i \in 0..(Len(d.rounds[r + 1]) - 1)
    /\ Slot(d.rounds, r, i, key) # Null

\* competitorChangeInBracket writing the clicked slot only
competitorChangeInSlotOnly(d, roundIndex, matchIndex, competitorKey, field, value) ==
    LET competitorToUpdate == Slot(d.rounds, roundIndex, matchIndex, competitorKey)
    IN  IF competitorToUpdate = Null THEN d
        ELSE Data(SetSlot(d.rounds, roundIndex, matchIndex, competitorKey,
                          [competitorToUpdate EXCEPT ![field] = value]),
                  d.winners)

\* lines 542-559: the store in which every slot and every winners entry with
\* the identifier of the competitor in the edited slot is replaced by that
\* slot's competitor with the field set to the value.  The copies of lines
\* 542-543 are JSON round trips of nested arrays of records of strings and
\* nulls, which yield equal values.
competitorChangeInBracket(d, roundIndex, matchIndex, competitorKey, field, value) ==
    LET competitorToUpdate == Slot(d.rounds, roundIndex, matchIndex, competitorKey)
        originalId == competitorToUpdate.id
        updatedCompetitor == [competitorToUpdate EXCEPT ![field] = value]
        upd(c) == IF c # Null /\ c.id = originalId THEN updatedCompetitor ELSE c
    IN  IF competitorToUpdate = Null THEN d
        ELSE Data([r \in DOMAIN d.rounds |->
                      [m \in DOMAIN d.rounds[r] |->
                          Match(upd(d.rounds[r][m].a), upd(d.rounds[r][m].b))]],
                  [w \in DOMAIN d.winners |->
                      [n \in DOMAIN d.winners[w] |-> upd(d.winners[w][n])]])

\* handleCompetitorChangeInBracket, lines 540-561, as called by the inputs of
\* lines 384-385
handleCompetitorChangeInBracket(r, i, key, field, value) ==
    /\ editEmits(bracketData, r, i, key)
    /\ bracketData' = competitorChangeInBracket(bracketData, r, i, key, field, value)
    /\ last' = [NoOp EXCEPT !.op = "edit", !.r = r, !.i = i,
                            !.w = Slot(bracketData.rounds, r, i, key).id,
                            !.pre = bracketData, !.applied = TRUE,
                            !.key = key, !.field = field, !.value = value]
    /\ setBracketDataRenders(bracketData')
    /\ held' = heldAfterHandler(bracketData')
    /\ UNCHANGED <<competitors, mode, isGenerating, storeMode, listVars>>

Next ==
    \/ \E m \in {"random", "manual"} : SetMode(m)
    \/ handleGenerateBracket
    \/ GenerateTimeout
    \/ \E r \in 0..MaxN, i \in 0..MaxN, key \in {"a", "b"} : handleWinnerSelect(r, i, key)

Spec == Init /\ [][Next]_vars

\* The page with the in-bracket inputs: lists of at most MaxEditN competitors,
\* texts 0..MaxText
EditInit == Init /\ Len(competitors) <= MaxEditN

EditNext ==
    \/ Next
    \/ \E r \in 0..MaxEditN, i \in 0..MaxEditN, key \in {"a", "b"} :
          \E field \in {"name", "subtitle"}, value \in 0..MaxText :
             handleCompetitorChangeInBracket(r, i, key, field, value)

EditSpec == EditInit /\ [][EditNext]_vars

----------------------------------------------------------------------------
(* The share modal: BracketPage lines 413-422, ShareModal lines 212-248 *)

\* toPng(node) for the share view rendered with the options o (lines 230, 237)
toPng(o) == IF o.showChampion THEN "png with champion" ELSE "png"

\* the sequence without its k-th element
removeAt(seq, k) == SubSeq(seq, 1, k - 1) \o SubSeq(seq, k + 1, Len(seq))

\* the Share button of line 422: setShareModalOpen(true), then the effect
openShareModal ==
    /\ displayable(bracketData) /\ ~isShareModalOpen
    /\ isShareModalOpen' = TRUE
    /\ shareEffect(TRUE)
    /\ UNCHANGED <<shareGenerating, options, previews>>
    /\ UNCHANGED <<pageVars, listVars, refVars>>

\* onClose, lines 265 and 418: setShareModalOpen(false), then the cleanup of
\* the effect and the effect with showModal false
closeShareModal ==
    /\ isShareModalOpen
    /\ isShareModalOpen' = FALSE
    /\ shareEffect(FALSE)
    /\ UNCHANGED <<shareGenerating, options, previews>>
    /\ UNCHANGED <<pageVars, listVars, refVars>>

\* ToggleButton, line 258: a new options object, then the effect
toggleOption ==
    /\ isShareModalOpen
    /\ options' = [options EXCEPT !.showChampion = ~@]
    /\ shareEffect(TRUE)
    /\ UNCHANGED <<isShareModalOpen, shareGenerating, previews>>
    /\ UNCHANGED <<pageVars, listVars, refVars>>

\* the timer of line 246 fires: generatePreview runs up to the wait of line
\* 231, with the options and the store of the render that set the timer
\* (line 230)
generatePreviewStarts ==
    /\ timer /\ Len(previews) < MaxPreviews
    /\ timer' = FALSE
    /\ shareGenerating' = TRUE
    /\ previews' = Append(previews, [awaiting |-> "render", options |-> options,
                                      data |-> bracketData])
    /\ UNCHANGED <<isShareModalOpen, previewUrl, options, previewFrom>>
    /\ UNCHANGED <<pageVars, listVars, refVars>>

\* lines 231-235: the wait of 500 ms is over; without a rendered node the
\* call returns, with one it goes on to toPng
generatePreviewRendered(k, hasNode) ==
    /\ k \in 1..Len(previews) /\ previews[k].awaiting = "render"
    /\ IF hasNode
       THEN /\ previews' = [previews EXCEPT ![k].awaiting = "toPng"]
            /\ UNCHANGED shareGenerating
       ELSE /\ previews' = removeAt(previews, k)
            /\ shareGenerating' = FALSE
    /\ UNCHANGED <<isShareModalOpen, previewUrl, options, timer, previewFrom>>
    /\ UNCHANGED <<pageVars, listVars, refVars>>

\* lines 236-244: toPng settles; fulfilled, the preview is set; either way
\* the finally block clears the flag
generatePreviewSettles(k, fulfilled) ==
    /\ k \in 1..Len(previews) /\ previews[k].awaiting = "toPng"
    /\ previewUrl' = IF fulfilled THEN toPng(previews[k].options) ELSE previewUrl
    /\ previewFrom' = IF fulfilled
                      THEN [options |-> previews[k].options, data |-> previews[k].data]
                      ELSE previewFrom
    /\ shareGenerating' = FALSE
    /\ previews' = removeAt(previews, k)
    /\ UNCHANGED <<isShareModalOpen, options, timer>>
    /\ UNCHANGED <<pageVars, listVars, refVars>>

\* The page with the share modal, for lists of at most MaxShareN competitors
ShareInit == Init /\ Len(competitors) <= MaxShareN

ShareNext ==
    \/ Next
    \/ openShareModal
    \/ closeShareModal
    \/ toggleOption
    \/ generatePreviewStarts
    \/ \E k \in 1..MaxPreviews, hasNode \in BOOLEAN : generatePreviewRendered(k, hasNode)
    \/ \E k \in 1..MaxPreviews, fulfilled \in BOOLEAN : generatePreviewSettles(k, fulfilled)

ShareSpec == ShareInit /\ [][ShareNext]_vars

----------------------------------------------------------------------------
(* The competitor list: App, lines 522-539 *)

\* the texts typed into the name and subtitle boxes
BoxTexts == {Text(l, p) : l \in 0..MaxText, p \in BOOLEAN}

\* the identifiers of the list entries the handlers are called for: the
\* first and the last entry of the list
TouchedIds(cs) == {cs[k].id : k \in {1, Len(cs)} \cap DOMAIN cs}

\* competitors.map(c => c.id === id ? { ...c, [field]: value } : c)
mapField(cs, id, field, value) ==
    [k \in DOMAIN cs |-> IF cs[k].id = id THEN [cs[k] EXCEPT ![field] = value] ELSE cs[k]]

\* where the list new differs from the list old: the entries and fields that
\* differ, or the length
changedFields(old, new) ==
    IF old = new THEN {}
    ELSE IF Len(old) # Len(new) THEN {<<0, "length">>}
    ELSE {kf \in {k \in DOMAIN old : old[k] # new[k]} \X {"id", "name", "subtitle", "images"} :
             old[kf[1]][kf[2]] # new[kf[1]][kf[2]]}

\* the value of lastList after the list handler op
ListOp(op) ==
    [op |-> op, len |-> Len(competitors), box |-> newCompetitorName,
     kept |-> competitors' = competitors,
     changed |-> changedFields(competitors, competitors')]

\* the files that are uploaded
Files == {1}

\* the frame of a list handler: the store, the toggle and the modal stay
ListFrame(op) ==
    /\ last' = NoOp
    /\ listOps' = listOps + 1
    /\ lastList' = ListOp(op)
    /\ UNCHANGED <<bracketData, mode, isGenerating, storeMode, shareVars, refVars>>

\* onChange of the name box, line 640
setNewCompetitorName(t) ==
    /\ listOps < MaxListOps /\ t # newCompetitorName
    /\ newCompetitorName' = t
    /\ UNCHANGED <<competitors, newCompetitorSubtitle, now, readers>>
    /\ ListFrame("type")

\* onChange of the subtitle box, line 641
setNewCompetitorSubtitle(t) ==
    /\ listOps < MaxListOps /\ t # newCompetitorSubtitle
    /\ newCompetitorSubtitle' = t
    /\ UNCHANGED <<competitors, newCompetitorName, now, readers>>
    /\ ListFrame("type")

\* the list with the new competitor of lines 524-528 appended
withNewCompetitor(cs, name, subtitle, id) ==
    Append(cs, [id |-> id, name |-> trim(name).letters,
                subtitle |-> trim(subtitle).letters, images |-> 0])

\* addRejected with the length test off by one
addRejectedAboveCap(cs, name) == trim(name) = EmptyText \/ Len(cs) > MAX_COMPETITORS

\* line 523: handleAddCompetitor returns early
addRejected(cs, name) == trim(name) = EmptyText \/ Len(cs) >= MAX_COMPETITORS

\* handleAddCompetitor, lines 522-530
handleAddCompetitor ==
    /\ listOps < MaxListOps
    /\ IF addRejected(competitors, newCompetitorName)
       THEN UNCHANGED <<competitors, newCompetitorName, newCompetitorSubtitle>>
       ELSE /\ competitors' = withNewCompetitor(competitors, newCompetitorName,
                                                newCompetitorSubtitle, now)
            /\ newCompetitorName' = EmptyText
            /\ newCompetitorSubtitle' = EmptyText
    /\ UNCHANGED <<now, readers>>
    /\ ListFrame("add")

\* handleEditCompetitorInList, lines 531-533
handleEditCompetitorInList(id, field, value) ==
    /\ listOps < MaxListOps /\ id \in TouchedIds(competitors)
    /\ competitors' = mapField(competitors, id, field, value)
    /\ UNCHANGED <<newCompetitorName, newCompetitorSubtitle, now, readers>>
    /\ ListFrame("edit")

\* handleRemoveCompetitor, line 534
handleRemoveCompetitor(id) ==
    /\ listOps < MaxListOps /\ id \in TouchedIds(competitors)
    /\ competitors' = SelectSeq(competitors, LAMBDA c : c.id # id)
    /\ UNCHANGED <<newCompetitorName, newCompetitorSubtitle, now, readers>>
    /\ ListFrame("remove")

\* handleImageUpload, lines 535-539: the reader starts with an onload that
\* closes over the list of the render the handler belongs to
handleImageUpload(id, file) ==
    /\ listOps < MaxListOps /\ id \in TouchedIds(competitors)
    /\ Len(readers) < MaxReaders
    /\ readers' = Append(readers, [id |-> id, file |-> file, competitors |-> competitors])
    /\ UNCHANGED <<competitors, newCompetitorName, newCompetitorSubtitle, now>>
    /\ ListFrame("upload")

\* reader.onload, line 537: the list becomes the closed-over list with the
\* image set
readerLoads(k) ==
    /\ listOps < MaxListOps /\ k \in 1..Len(readers)
    /\ competitors' = mapField(readers[k].competitors, readers[k].id, "images",
                               readers[k].file)
    /\ readers' = removeAt(readers, k)
    /\ UNCHANGED <<newCompetitorName, newCompetitorSubtitle, now>>
    /\ ListFrame("onload")

\* Date.now() reads a later time
tick ==
    /\ listOps < MaxListOps
    /\ now' = now + 1
    /\ UNCHANGED <<competitors, newCompetitorName, newCompetitorSubtitle, readers>>
    /\ ListFrame("tick")

\* The list handlers, from short lists and from lists at the cap
ListLengths == (0..MaxListN) \cup {MAX_COMPETITORS - 1, MAX_COMPETITORS}

ListInit == \E n \in ListLengths : InitOf(n)

ListNext ==
    \/ \E t \in BoxTexts : setNewCompetitorName(t)
    \/ \E t \in BoxTexts : setNewCompetitorSubtitle(t)
    \/ handleAddCompetitor
    \/ \E id \in TouchedIds(competitors), field \in {"name", "subtitle"}, value \in 0..MaxText :
          handleEditCompetitorInList(id, field, value)
    \/ \E id \in TouchedIds(competitors) : handleRemoveCompetitor(id)
    \/ \E id \in TouchedIds(competitors), file \in Files : handleImageUpload(id, file)
    \/ \E k \in 1..MaxReaders : readerLoads(k)
    \/ tick

ListSpec == ListInit /\ [][ListNext]_vars

\* The page with its list handlers, from lists of at most MaxListN competitors
PageInit == Init /\ Len(competitors) <= MaxListN

PageNext ==
    \/ Next
    \/ listOps < MaxPageOps /\ ListNext

PageSpec == PageInit /\ [][PageNext]_vars

----
\* The page with the add form (lines 640-642), from lists of at most MaxAddN
\* competitors: brackets are generated from lists that adds have extended
AddInit == Init /\ Len(competitors) <= MaxAddN

AddNext ==
    \/ Next
    \/ \E t \in BoxTexts : setNewCompetitorName(t)
    \/ handleAddCompetitor
    \/ tick

AddSpec == AddInit /\ [][AddNext]_vars

----
\* The share view: BracketShareView, lines 106-112

\* line 109, with the rounds of a store
numCompetitorsCountingMatches(rounds) == IF Len(rounds) > 0 THEN Len(rounds[1]) ELSE 0

numCompetitors(rounds) ==
    IF Len(rounds) > 0
    THEN Len(rounds[1]) * 2
         - (IF Len(rounds[1]) > 0 /\ rounds[1][Len(rounds[1])].b # Null THEN 0 ELSE 1)
    ELSE 0

\* lines 110-111
imageWidth(rounds) == IF numCompetitors(rounds) > 50 THEN 3840 ELSE 1920

imageHeight(rounds) == IF numCompetitors(rounds) > 50 THEN 2160 ELSE 1080

\* The list lengths around the two thresholds in question: 50 competitors and
\* 50 matches of round 0
ViewLengths == {2, 3, 49, 50, 51, 52, 99, 100, 101, 102}

ViewInit == \E n \in ViewLengths : InitOf(n)

\* The page on 'manual' with the share modal opened and closed
ViewNext ==
    \/ handleGenerateBracket
    \/ GenerateTimeout
    \/ \E i \in 0..MaxViewI, key \in {"a", "b"} : handleWinnerSelect(0, i, key)
    \/ openShareModal
    \/ closeShareModal

ViewSpec == ViewInit /\ [][ViewNext]_vars

----
\* Holders of the store's arrays

\* line 667: a render of BracketPage is given bracketData.rounds and
\* bracketData.winners, and keeps them
renderBracketPage ==
    /\ displayable(bracketData)
    /\ held' = [taken |-> TRUE, value |-> bracketData, at |-> bracketData,
                shared |-> {"rounds", "winners"}]
    /\ UNCHANGED <<pageVars, shareVars, listVars>>

\* The page with the in-bracket inputs and a render that keeps its arrays,
\* from lists of at most MaxRefN competitors
RefInit == Init /\ Len(competitors) <= MaxRefN

RefNext ==
    \/ EditNext
    \/ renderBracketPage

RefSpec == RefInit /\ [][RefNext]_vars

----------------------------------------------------------------------------
(* Vocabulary of the properties *)

\* the store before the last operation, and the last select's arguments
Pre == last.pre
SelR == last.r
SelI == last.i

\* the last operation was a select that computed a new store
Selected == last.op = "select" /\ last.applied

\* number of rounds of a store
NumRounds(d) == Len(d.rounds)

\* the competitor with identifier id occupies a slot of match m
Occupies(m, id) == id # 0 /\ (m.a.id = id \/ m.b.id = id)

\* both slots of match m are occupied
Full(m) == m.a # Null /\ m.b # Null

\* the identifiers of the occupants of match (k, j) that are winners of round k
WinnersOfMatch(d, k, j) ==
    {id \in {d.rounds[k + 1][j + 1].a.id, d.rounds[k + 1][j + 1].b.id} :
        id # 0 /\ someId(d.winners[k + 1], id)}

\* the identifiers in a winners list
IdsOf(ws) == {ws[k].id : k \in 1..Len(ws)}

\* 2^e
RECURSIVE Pow2(_)
Pow2(e) == IF e = 0 THEN 1 ELSE 2 * Pow2(e - 1)

\* the match of round k >= r that match (r, i) feeds into
Descendant(r, i, k) == i \div Pow2(k - r)

\* the side of the descendant match of round k > r that the chain from (r, i) enters
ChainSide(r, i, k) == nextSlotOf(Descendant(r, i, k - 1))

\* the occupant of match (SelR, SelI) of the previous store that was not selected
OtherOccupant ==
    LET m == Pre.rounds[SelR + 1][SelI + 1]
    IN  IF m.a.id = last.w THEN m.b ELSE m.a

\* every match of d has an occupant among the winners of its round
AllDecided(d) ==
    \A k \in 0..(NumRounds(d) - 1) : \A j \in 0..(Len(d.rounds[k + 1]) - 1) :
        WinnersOfMatch(d, k, j) # {}

----------------------------------------------------------------------------
(* Downstream invalidation *)

\* The case of C1: a manual-mode store of n >= 4 competitors in which every
\* match was decided, and a select on the round-0 match the champion came from,
\* with that match's other occupant.
C1_Case ==
    /\ Selected /\ storeMode = "manual" /\ Len(competitors) >= 4
    /\ SelR = 0
    /\ AllDecided(Pre)
    /\ champion(Pre.winners) # Null
    /\ Occupies(Pre.rounds[1][SelI + 1], champion(Pre.winners).id)
    /\ last.w # champion(Pre.winners).id

\* C1: re-selecting the other occupant of the round-0 match the champion came
\* from, in a fully decided manual bracket, leaves the store without a champion.
C1_ChampionCleared == C1_Case => champion(bracketData.winners) = Null

\* The case of C2: the select replaced an occupant that had advanced, by an
\* occupant of another identifier.
C2_Case ==
    /\ Selected /\ storeMode = "manual"
    /\ OtherOccupant # Null
    /\ OtherOccupant.id # last.w
    /\ \/ someId(Pre.winners[SelR + 1], OtherOccupant.id)
       \/ /\ SelR + 1 < NumRounds(Pre)
          /\ Slot(Pre.rounds, SelR + 1, nextMatchIndexOf(SelI), nextSlotOf(SelI)).id
                 = OtherOccupant.id

\* C2: after a select that replaces an advanced occupant o of match (r, m) by
\* the other occupant, o occupies no slot of any later round and is in no
\* winners list of round r or later.
C2_CascadeInvalidation ==
    C2_Case =>
        /\ \A k \in (SelR + 1)..(NumRounds(bracketData) - 1) :
               \A j \in 1..Len(bracketData.rounds[k + 1]) :
                   ~Occupies(bracketData.rounds[k + 1][j], OtherOccupant.id)
        /\ \A k \in SelR..(NumRounds(bracketData) - 1) :
               ~someId(bracketData.winners[k + 1], OtherOccupant.id)

\* C3: a select on (r, m) leaves every slot of a later round that is not on
\* the chain from (r, m) as it was, and leaves the winner of every match that
\* is not (r, m) or a descendant of it as it was.
C3_SiblingsUntouched ==
    Selected =>
        /\ \A k \in (SelR + 1)..(NumRounds(Pre) - 1) :
               \A j \in 0..(Len(Pre.rounds[k + 1]) - 1) : \A key \in {"a", "b"} :
                   ~(j = Descendant(SelR, SelI, k) /\ key = ChainSide(SelR, SelI, k))
                       => Slot(bracketData.rounds, k, j, key) = Slot(Pre.rounds, k, j, key)
        /\ \A k \in 0..(NumRounds(Pre) - 1) :
               \A j \in 0..(Len(Pre.rounds[k + 1]) - 1) :
                   ~(k >= SelR /\ j = Descendant(SelR, SelI, k))
                       => WinnersOfMatch(bracketData, k, j) = WinnersOfMatch(Pre, k, j)

\* C4: in a manual-mode store, an occupant of a match with both slots occupied
\* is among the winners of its round only if the last operation selected it in
\* that match, or the match held the same two occupants and it was already
\* their winner in the store before.
C4_WinnersOnlyDecided ==
    (storeMode = "manual" /\ last.op \in {"generate", "select"}) =>
        \A k \in 0..(NumRounds(bracketData) - 1) :
            \A j \in 0..(Len(bracketData.rounds[k + 1]) - 1) :
                LET m == bracketData.rounds[k + 1][j + 1]
                IN  Full(m) =>
                        \A id \in WinnersOfMatch(bracketData, k, j) :
                            /\ last.op = "select"
                            /\ \/ Selected /\ SelR = k /\ SelI = j /\ last.w = id
                               \/ /\ Pre.rounds[k + 1][j + 1].a.id = m.a.id
                                  /\ Pre.rounds[k + 1][j + 1].b.id = m.b.id
                                  /\ id \in WinnersOfMatch(Pre, k, j)

\* C5: in a manual-mode store of n >= 3 competitors there is a champion only
\* if the final has both slots occupied and the champion was selected in it by
\* the last operation or was already the champion of the same final before.
C5_ChampionOnlyAfterFinal ==
    (storeMode = "manual" /\ Len(competitors) >= 3 /\ last.op \in {"generate", "select"}
        /\ champion(bracketData.winners) # Null) =>
        LET f == NumRounds(bracketData) - 1
            final == bracketData.rounds[f + 1][1]
        IN  /\ Full(final)
            /\ last.op = "select"
            /\ \/ Selected /\ SelR = f /\ SelI = 0
                  /\ last.w = champion(bracketData.winners).id
               \/ /\ Pre.rounds[f + 1][1].a.id = final.a.id
                  /\ Pre.rounds[f + 1][1].b.id = final.b.id
                  /\ champion(Pre.winners).id = champion(bracketData.winners).id

----------------------------------------------------------------------------
(* Consistency of slots and winners *)

\* C6: every occupied slot of round k + 1 at match j holds a winner of round k
\* that occupies the feeding match of round k (2j for side a, 2j + 1 for b).
C6_SlotConsistency ==
    \A k \in 0..(NumRounds(bracketData) - 2) :
        \A j \in 0..(Len(bracketData.rounds[k + 2]) - 1) : \A key \in {"a", "b"} :
            LET x == Slot(bracketData.rounds, k + 1, j, key)
                feeder == IF key = "a" THEN 2 * j ELSE 2 * j + 1
            IN  x # Null =>
                    /\ someId(bracketData.winners[k + 1], x.id)
                    /\ feeder < Len(bracketData.rounds[k + 1])
                    /\ Occupies(bracketData.rounds[k + 1][feeder + 1], x.id)

\* C7: every winner of a round before the last occupies the slot of the next
\* round that its match feeds.
C7_WinnersAdvanced ==
    \A k \in 0..(NumRounds(bracketData) - 2) :
        \A n \in 1..Len(bracketData.winners[k + 1]) :
            \A j \in 0..(Len(bracketData.rounds[k + 1]) - 1) :
                LET w == bracketData.winners[k + 1][n]
                IN  Occupies(bracketData.rounds[k + 1][j + 1], w.id) =>
                        Slot(bracketData.rounds, k + 1, nextMatchIndexOf(j), nextSlotOf(j)).id = w.id

\* C8: on every manual-mode store, selecting the same winner of the same
\* match a second time yields the store the first selection yielded (the same
\* rounds and, round by round, the same set of winners).
C8_SelectionIdempotent ==
    (storeMode = "manual" /\ ~bracketData.null) =>
        \A r \in 0..(NumRounds(bracketData) - 1) :
            \A i \in 0..(Len(bracketData.rounds[r + 1]) - 1) : \A key \in {"a", "b"} :
                clickEmits(bracketData, r, i, key) =>
                    LET winner == Slot(bracketData.rounds, r, i, key)
                        once == selectWinner(bracketData, r, i, winner)
                        twice == selectWinner(once, r, i, winner)
                    IN  /\ twice.rounds = once.rounds
                        /\ \A k \in 1..Len(once.winners) :
                               IdsOf(twice.winners[k]) = IdsOf(once.winners[k])

\* The case of C9: a select on the final of a manual-mode store.
C9_Case ==
    /\ Selected /\ storeMode = "manual"
    /\ SelR = NumRounds(Pre) - 1

\* C9: a select on the final with occupant X leaves X as the only winner of
\* the last round, hence the champion; a manual bracket of 5 competitors has
\* rounds of 3, 2 and 1 matches.
C9_FinalSelectionDecides ==
    /\ C9_Case =>
           /\ IdsOf(bracketData.winners[NumRounds(bracketData)]) = {last.w}
           /\ Len(bracketData.winners[NumRounds(bracketData)]) = 1
           /\ champion(bracketData.winners).id = last.w
    /\ (storeMode = "manual" /\ Len(competitors) = 5) =>
           /\ NumRounds(bracketData) = 3
           /\ Len(bracketData.rounds[1]) = 3
           /\ Len(bracketData.rounds[2]) = 2
           /\ Len(bracketData.rounds[3]) = 1

\* C10: a select leaves a store that was generated in random mode unchanged.
C10_RandomStoreRejectsSelect ==
    (last.op = "select" /\ storeMode = "random") => bracketData = Pre

----------------------------------------------------------------------------
(* Generation *)

\* the last operation generated a store from a list of at least two competitors
Generated == last.op = "generate" /\ Len(competitors) >= 2

\* ceil(x / 2)
CeilHalf(x) == (x + 1) \div 2

\* ceil(log2(n)) for n >= 1: the number of halvings (rounded up) that take n to 1
RECURSIVE CeilLog2(_)
CeilLog2(n) == IF n <= 1 THEN 0 ELSE 1 + CeilLog2(CeilHalf(n))

\* C11: a store generated from n >= 2 competitors, in either mode, has
\* ceil(log2(n)) rounds; round 0 has ceil(n/2) matches, every later round has
\* half the matches of the round before it, rounded up, the last round has one
\* match, and winners has as many rounds as rounds.
C11_RoundSizing ==
    Generated =>
        /\ NumRounds(bracketData) = CeilLog2(Len(competitors))
        /\ Len(bracketData.rounds[1]) = CeilHalf(Len(competitors))
        /\ \A k \in 1..(NumRounds(bracketData) - 1) :
               Len(bracketData.rounds[k + 1]) = CeilHalf(Len(bracketData.rounds[k]))
        /\ Len(bracketData.rounds[NumRounds(bracketData)]) = 1
        /\ Len(bracketData.winners) = Len(bracketData.rounds)

\* a manual-mode store generated from 5 competitors: rounds of 3, 2 and 1
\* matches, the halving rounding up
C11_Witness ==
    /\ Generated /\ storeMode = "manual" /\ Len(competitors) = 5
    /\ NumRounds(bracketData) = 3
    /\ Len(bracketData.rounds[2]) = 2

\* the 1-based positions of the round-0 matches of d with an empty slot b
ByeMatches(d) == {j \in 1..Len(d.rounds[1]) : d.rounds[1][j].b = Null}

\* C12: directly after a generation from an odd n >= 3, the last match of
\* round 0 is the only one with an empty slot b, its slot a is occupied, and in
\* manual mode that occupant is in winners[0]; after a generation from an even
\* n >= 2, no slot of round 0 is empty.
C12_ByeCorrectness ==
    Generated =>
        LET round1 == bracketData.rounds[1]
        IN  /\ \A j \in 1..Len(round1) : round1[j].a # Null
            /\ Len(competitors) % 2 = 1 =>
                   /\ ByeMatches(bracketData) = {Len(round1)}
                   /\ storeMode = "manual" =>
                          someId(bracketData.winners[1], round1[Len(round1)].a.id)
            /\ Len(competitors) % 2 = 0 => ByeMatches(bracketData) = {}

\* a manual-mode store generated from 5 competitors whose bye went to a
\* competitor that was not the last of the list, with no other round-0 winner
C12_Witness ==
    /\ Generated /\ storeMode = "manual" /\ Len(competitors) = 5
    /\ bracketData.rounds[1][3].b = Null
    /\ bracketData.rounds[1][3].a.id # 5
    /\ IdsOf(bracketData.winners[1]) = {bracketData.rounds[1][3].a.id}

\* C13: directly after a random-mode generation from n >= 2 competitors,
\* whatever the shuffle and the draws, every round has as many winners as
\* matches, the j-th winner of a round being an occupant of its j-th match,
\* and the last winners list has exactly one entry, the champion.
C13_RandomTotality ==
    (Generated /\ storeMode = "random") =>
        /\ \A k \in 1..NumRounds(bracketData) :
               /\ Len(bracketData.winners[k]) = Len(bracketData.rounds[k])
               /\ \A j \in 1..Len(bracketData.rounds[k]) :
                      Occupies(bracketData.rounds[k][j], bracketData.winners[k][j].id)
        /\ Len(bracketData.winners[NumRounds(bracketData)]) = 1
        /\ champion(bracketData.winners) # Null

\* a random-mode store generated from 5 competitors: round 1 has a match
\* with an empty slot b, and the champion is the slot-b occupant of the final
C13_Witness ==
    /\ Generated /\ storeMode = "random" /\ Len(competitors) = 5
    /\ bracketData.rounds[2][2].b = Null
    /\ Full(bracketData.rounds[3][1])
    /\ champion(bracketData.winners) = bracketData.rounds[3][1].b

\* the slots (match position, side) of round 0 of d that hold competitor c
Round0SlotsOf(d, c) ==
    {sl \in (1..Len(d.rounds[1])) \X {"a", "b"} :
        Slot(d.rounds, 0, sl[1] - 1, sl[2]) = c}

\* C14: directly after a generation from a list of n >= 2 competitors with
\* distinct identifiers, in either mode, every competitor of the list is in
\* exactly one slot of round 0 and every occupied slot of round 0 holds a
\* competitor of the list.
C14_Round0Pairing ==
    Generated =>
        /\ \A c \in 1..Len(competitors) :
               Cardinality(Round0SlotsOf(bracketData, competitors[c])) = 1
        /\ \A j \in 0..(Len(bracketData.rounds[1]) - 1) : \A key \in {"a", "b"} :
               LET x == Slot(bracketData.rounds, 0, j, key)
               IN  x # Null => \E c \in 1..Len(competitors) : competitors[c] = x

\* a store generated in random mode from 5 competitors whose shuffle moved
\* the first of the list into the bye match
C14_Witness ==
    /\ Generated /\ storeMode = "random" /\ Len(competitors) = 5
    /\ bracketData.rounds[1][1].a = competitors[2]
    /\ bracketData.rounds[1][3] = Match(competitors[1], Null)

\* C15: for a competitor list of length 0 or 1, generateBracketData returns
\* the store without rounds and winners in either mode, which is not
\* displayable, and directly after the generate action of the page there is no
\* store, hence no displayable bracket.
C15_DegenerateInput ==
    Len(competitors) < 2 =>
        /\ \A isManual \in BOOLEAN : \A perm \in shuffleOutcomes(Len(competitors)) :
               LET d == generateBracketData(competitors, isManual, perm, <<>>)
               IN  /\ d = Data(<<>>, <<>>)
                   /\ ~displayable(d)
        /\ last.op = "generate" =>
               /\ bracketData = NullData
               /\ ~displayable(bracketData)

\* the generate action has run on a list of one competitor with the toggle on
\* 'random'
C15_Witness ==
    /\ Len(competitors) = 1 /\ last.op = "generate" /\ mode = "random"
    /\ isGenerating /\ bracketData.null

----------------------------------------------------------------------------
(* In-bracket editing *)

\* the last operation was an edit through a slot of the bracket
Edited == last.op = "edit"

\* C16: after an edit of a field through an occupied slot, every slot of every
\* round and every winners entry with the identifier of the edited competitor
\* carries the new value of that field.
C16_EditPropagates ==
    Edited =>
        /\ \A r \in 1..NumRounds(bracketData) : \A m \in 1..Len(bracketData.rounds[r]) :
               /\ bracketData.rounds[r][m].a.id = last.w
                      => bracketData.rounds[r][m].a[last.field] = last.value
               /\ bracketData.rounds[r][m].b.id = last.w
                      => bracketData.rounds[r][m].b[last.field] = last.value
        /\ \A w \in 1..Len(bracketData.winners) : \A n \in 1..Len(bracketData.winners[w]) :
               bracketData.winners[w][n].id = last.w
                   => bracketData.winners[w][n][last.field] = last.value

\* an edit made through a slot of round 1 that changed the text in the
\* competitor's round-0 slot and in its winners entries of rounds 0 and 1
C16_Witness ==
    /\ Edited /\ last.r = 1
    /\ \E m \in 1..Len(bracketData.rounds[1]) : \E key \in {"a", "b"} :
           /\ Slot(bracketData.rounds, 0, m - 1, key).id = last.w
           /\ Slot(bracketData.rounds, 0, m - 1, key) # Slot(Pre.rounds, 0, m - 1, key)
           /\ Full(bracketData.rounds[1][m])
    /\ someId(bracketData.winners[1], last.w)
    /\ someId(bracketData.winners[2], last.w)
    /\ bracketData.winners # Pre.winners

----------------------------------------------------------------------------
(* The share modal *)

\* C19: while the share modal is closed the preview is empty: a generation
\* that was pending or in flight when the modal was closed sets no preview.
C19_NoPreviewWhileClosed == ~isShareModalOpen => previewUrl = ""

----------------------------------------------------------------------------
(* The competitor list *)

\* C17: a select or an in-bracket edit leaves the arrays a holder took from
\* the store before it as they were when taken, and a generate leaves the
\* competitor list it was given as it was.
C17_ReplaceNeverMutate ==
    /\ held.taken => held.value = held.at
    /\ last.op = "generate" => competitors = last.list

\* a select or an edit that computed a store different from the arrays a
\* render holds, which were the arrays of the store when the handler ran
C17_Witness ==
    /\ held.taken
    /\ last.op \in {"select", "edit"} /\ last.applied
    /\ last.pre = held.at
    /\ bracketData # held.at

\* C18: a select leaves the competitor list as it was: the same entries with
\* the same identifiers and fields in the same order.
C18_SelectKeepsList == last.op = "select" => competitors = last.list

\* a select that computed a new store while the list no longer held the
\* selected competitor and held one that is in no slot of the bracket
C18_Witness ==
    /\ Selected
    /\ ~someId(competitors, last.w)
    /\ \E k \in 1..Len(competitors) :
           \A m \in 1..Len(bracketData.rounds[1]) :
               ~Occupies(bracketData.rounds[1][m], competitors[k].id)

\* C20: the competitor list never holds more than 1024 entries, and a call of
\* handleAddCompetitor with 1024 entries in the list or with a blank name in
\* the box leaves the list as it was.
C20_CompetitorCap ==
    /\ Len(competitors) <= MAX_COMPETITORS
    /\ \A t \in BoxTexts :
           (Len(competitors) >= MAX_COMPETITORS \/ t.letters = 0) =>
               addRejected(competitors, t)
    /\ (lastList.op = "add"
           /\ (lastList.len >= MAX_COMPETITORS \/ lastList.box.letters = 0)) =>
           lastList.kept

\* handleAddCompetitor has run with a name in the box on a list of 1024
\* entries
C20_Witness ==
    /\ lastList.op = "add" /\ lastList.len = MAX_COMPETITORS
    /\ newCompetitorName.letters # 0
    /\ Len(competitors) = MAX_COMPETITORS

\* C21 as stated: the share view of a store is 3840x2160 exactly when round 0
\* has more than 50 matches, and 1920x1080 otherwise.
C21_CanvasByMatchCount ==
    displayable(bracketData) =>
        LET rounds == bracketData.rounds
            big == Len(rounds[1]) > 50
        IN  /\ imageWidth(rounds) = (IF big THEN 3840 ELSE 1920)
            /\ imageHeight(rounds) = (IF big THEN 2160 ELSE 1080)

\* C21, amended: the share view of a store is 3840x2160 exactly when round 0
\* holds more than 50 competitors, that is when it has more than 25 matches
\* and the store was generated from a list of more than 50, and 1920x1080
\* otherwise.
C21_CanvasByCompetitorCount ==
    displayable(bracketData) =>
        LET rounds == bracketData.rounds
            big == Len(rounds[1]) > 25
        IN  /\ big <=> Len(competitors) > 50
            /\ imageWidth(rounds) = (IF big THEN 3840 ELSE 1920)
            /\ imageHeight(rounds) = (IF big THEN 2160 ELSE 1080)

\* the share modal shows a store of 26 matches in round 0, the last a bye, on
\* the larger canvas
C21_Witness ==
    /\ isShareModalOpen
    /\ Len(bracketData.rounds[1]) = 26
    /\ bracketData.rounds[1][26].b = Null
    /\ imageWidth(bracketData.rounds) = 3840

\* no identifier occurs twice in the list ws
NoRepeat(ws) == \A p, q \in 1..Len(ws) : ws[p].id = ws[q].id => p = q

\* C22: in every store, the winners of a round hold no identifier twice and at
\* most one occupant of any match of the round, they are no more than the
\* round's matches, and the winners of the last round are at most one.
C22_OneWinnerPerMatch ==
    ~bracketData.null =>
        /\ \A k \in 0..(NumRounds(bracketData) - 1) :
               /\ NoRepeat(bracketData.winners[k + 1])
               /\ Len(bracketData.winners[k + 1]) <= Len(bracketData.rounds[k + 1])
               /\ \A j \in 0..(Len(bracketData.rounds[k + 1]) - 1) :
                      Cardinality(WinnersOfMatch(bracketData, k, j)) <= 1
        /\ Len(bracketData.winners[NumRounds(bracketData)]) <= 1

\* C23: directly after a manual generation the winners of round 0 are the bye
\* holder alone when the list is odd and none when it is even; when it is
\* even, every match of every later round is empty and every later round has
\* no winner.
C23_ManualDecidesNothing ==
    (Generated /\ storeMode = "manual") =>
        LET d == bracketData
            n == Len(competitors)
            lastMatch == d.rounds[1][Len(d.rounds[1])]
        IN  /\ d.winners[1] = IF n % 2 = 1 THEN <<lastMatch.a>> ELSE <<>>
            /\ n % 2 = 1 => lastMatch.b = Null /\ lastMatch.a # Null
            /\ n % 2 = 0 =>
                   \A k \in 2..NumRounds(d) :
                       /\ d.winners[k] = <<>>
                       /\ \A j \in 1..Len(d.rounds[k]) : d.rounds[k][j] = Match(Null, Null)

\* a manual generation from an even list that yields more than one round
C23_Witness ==
    /\ Generated /\ storeMode = "manual"
    /\ Len(competitors) % 2 = 0
    /\ NumRounds(bracketData) >= 2
    /\ bracketData.winners[1] = <<>>

\* the identifier of the winner of match (k, j) of d: the occupant that is among
\* the winners of round k; 0 when there is no such match or no such occupant
WinnerIdOf(d, k, j) ==
    IF j + 1 \in DOMAIN d.rounds[k + 1] /\ WinnersOfMatch(d, k, j) # {}
    THEN CHOOSE id \in WinnersOfMatch(d, k, j) : TRUE
    ELSE 0

\* slot A of match (k, i) holds the winner of match (k - 1, 2i), slot B that of
\* match (k - 1, 2i + 1), for every round k > 0 of d; every winner of a round
\* occupies a match of the round
RandomPairing(d) ==
    /\ \A k \in 1..(NumRounds(d) - 1) : \A i \in 0..(Len(d.rounds[k + 1]) - 1) :
           /\ d.rounds[k + 1][i + 1].a.id = WinnerIdOf(d, k - 1, 2 * i)
           /\ d.rounds[k + 1][i + 1].b.id = WinnerIdOf(d, k - 1, 2 * i + 1)
    /\ \A k \in 0..(NumRounds(d) - 1) : \A w \in 1..Len(d.winners[k + 1]) :
           \E j \in 1..Len(d.rounds[k + 1]) :
               Occupies(d.rounds[k + 1][j], d.winners[k + 1][w].id)

\* directly after a random generation the winners of a round are listed in
\* match order, one occupant of every match, and match i of the next round
\* holds the winners at positions 2i and 2i + 1
PairedInOrder(d) ==
    /\ \A k \in 0..(NumRounds(d) - 1) :
           /\ Len(d.winners[k + 1]) = Len(d.rounds[k + 1])
           /\ \A j \in 1..Len(d.rounds[k + 1]) :
                  d.winners[k + 1][j] \in {d.rounds[k + 1][j].a, d.rounds[k + 1][j].b} \ {Null}
    /\ \A k \in 1..(NumRounds(d) - 1) : \A i \in 0..(Len(d.rounds[k + 1]) - 1) :
           /\ d.rounds[k + 1][i + 1].a = d.winners[k][2 * i + 1]
           /\ d.rounds[k + 1][i + 1].b =
                  IF 2 * i + 2 <= Len(d.winners[k]) THEN d.winners[k][2 * i + 2] ELSE Null

\* C24: every store generated in random mode pairs the winners of each round
\* into the next round in match order, and records as winners only occupants
\* of the matches they won.
C24_RandomPairing ==
    /\ (storeMode = "random" /\ ~bracketData.null) => RandomPairing(bracketData)
    /\ (storeMode = "random" /\ Generated) => PairedInOrder(bracketData)

\* a random generation whose round 1 has a match fed by two contested matches
\* and a match fed by a bye
C24_Witness ==
    /\ Generated /\ storeMode = "random"
    /\ Len(competitors) = 5
    /\ Full(bracketData.rounds[2][1])
    /\ bracketData.rounds[2][2].b = Null

\* C25: every select the page emits names a match of the store it was emitted
\* on that has both slots occupied, and one of the two occupants of that match.
C25_SelectWellFormed ==
    last.op = "select" =>
        /\ ~Pre.null
        /\ SelR \in 0..(NumRounds(Pre) - 1)
        /\ SelI \in 0..(Len(Pre.rounds[SelR + 1]) - 1)
        /\ Full(Pre.rounds[SelR + 1][SelI + 1])
        /\ Occupies(Pre.rounds[SelR + 1][SelI + 1], last.w)
        /\ Slot(Pre.rounds, SelR, SelI, last.key).id = last.w

\* a select emitted on a store that also showed a bye and, in a later round,
\* a match with a lone occupant and a match with none
C25_Witness ==
    /\ last.op = "select"
    /\ ByeMatches(Pre) # {}
    /\ \E k \in 2..NumRounds(Pre) : \E j, e \in 1..Len(Pre.rounds[k]) :
           /\ Pre.rounds[k][j].a # Null /\ Pre.rounds[k][j].b = Null
           /\ Pre.rounds[k][e] = Match(Null, Null)

\* C26: the competitors of the list have pairwise distinct identifiers.
C26_IdsDistinct == Cardinality(IdsOf(competitors)) = Len(competitors)

\* the identifiers in the slots of round 0 of d, match by match
Round0Ids(d) == [j \in 1..Len(d.rounds[1]) |-> <<d.rounds[1][j].a.id, d.rounds[1][j].b.id>>]

\* the number of matches of every round of d
Shape(d) == [k \in 1..Len(d.rounds) |-> Len(d.rounds[k])]

\* C27: a select or an in-bracket edit leaves the number of rounds, the number
\* of matches of every round and the identifiers in the slots of round 0 as
\* they were.
C27_ShapeAndSeedingFrozen ==
    (last.op \in {"select", "edit"} /\ last.applied) =>
        /\ Shape(bracketData) = Shape(Pre)
        /\ Len(bracketData.winners) = Len(Pre.winners)
        /\ Round0Ids(bracketData) = Round0Ids(Pre)

\* a select of the competitor in slot b of a round-0 match whose other
\* occupant had advanced, in a store of two rounds with an edited name
C27_Witness ==
    /\ Selected /\ SelR = 0 /\ last.key = "b"
    /\ NumRounds(Pre) = 2
    /\ \E j \in 1..Len(Pre.rounds[1]) : Pre.rounds[1][j].a.name # 0
    /\ someId(Pre.winners[1], OtherOccupant.id)
    /\ bracketData # Pre

\* the slots of round k of d that hold the identifier id
SlotsOf(d, k, id) ==
    {<<j, key>> \in (1..Len(d.rounds[k + 1])) \X {"a", "b"} :
        (IF key = "a" THEN d.rounds[k + 1][j].a.id ELSE d.rounds[k + 1][j].b.id) = id}

\* C28: in every store, no round holds the identifier of a competitor in more
\* than one slot.
C28_OneSlotPerRound ==
    ~bracketData.null =>
        \A k \in 0..(NumRounds(bracketData) - 1) :
            \A j \in 1..Len(bracketData.rounds[k + 1]) :
                \A id \in {bracketData.rounds[k + 1][j].a.id,
                            bracketData.rounds[k + 1][j].b.id} \ {0} :
                    Cardinality(SlotsOf(bracketData, k, id)) = 1

\* C29: when the file read of an upload completes, the list differs from the
\* list before the completion in images only, and only in entries of one
\* identifier.
C29_UploadKeepsList ==
    lastList.op = "onload" =>
        /\ \A kf \in lastList.changed : kf[2] = "images"
        /\ \A kf, lg \in lastList.changed :
               competitors[kf[1]].id = competitors[lg[1]].id

\* C30: whenever the download button is enabled, the preview was rendered from
\* the current share options and the current store.
C30_PreviewCurrent ==
    (isShareModalOpen /\ previewUrl # "" /\ ~shareGenerating) =>
        previewFrom = [options |-> options, data |-> bracketData]

====
